---- MODULE Spec2Model ----
(***************************************************************************)
(* GravitySim (gravity_sim.py, test.py): Particle, State and the calls a   *)
(* driver makes on a State (update, update_trackables).                    *)
(*                                                                         *)
(* Numbers.  The program computes in float64.  Here a number is an         *)
(* integer; sums, differences and products are exact, and the operations   *)
(* that round in floating point round here too: the square root            *)
(* (np.linalg.norm) and the quotient round down.  A reciprocal 1/x is held *)
(* in fixed point, ONE standing for 1.0, and nothing is rescaled           *)
(* afterwards, so accelerations and the potential energy carry the factor  *)
(* ONE (the gravitational constant in position units is NewtonG * ONE).    *)
(* inf and nan are the values Inf, NegInf and NaN, which no finite result  *)
(* of the model reaches.                                                   *)
(***************************************************************************)
EXTENDS Integers, Sequences, FiniteSets

\* ------------------------------------------------------------------ bounds
MaxParticles == 2
MaxSteps == 2
MaxWrites == 1

\* ------------------------------------------------------------- arithmetic
ONE == 64
Inf == 2147483647
NaN == 2147483646
NegInf == -Inf

Finite(x) == x # Inf /\ x # NegInf /\ x # NaN

XNeg(a) ==
  IF a = NaN THEN NaN ELSE IF a = Inf THEN NegInf ELSE IF a = NegInf THEN Inf ELSE -a

XAdd(a, b) ==
  IF a = NaN \/ b = NaN THEN NaN
  ELSE IF Finite(a) /\ Finite(b) THEN a + b
  ELSE IF Finite(a) THEN b
  ELSE IF Finite(b) THEN a
  ELSE IF a = b THEN a ELSE NaN

XSub(a, b) == XAdd(a, XNeg(b))

XMul(a, b) ==
  IF a = NaN \/ b = NaN THEN NaN
  ELSE IF Finite(a) /\ Finite(b) THEN a * b
  ELSE IF a = 0 \/ b = 0 THEN NaN
  ELSE IF (a > 0) = (b > 0) THEN Inf ELSE NegInf

\* a / b, rounded down; x/0 is inf, -inf or nan as numpy gives it.
XDiv(a, b) ==
  IF a = NaN \/ b = NaN THEN NaN
  ELSE IF ~Finite(a) /\ ~Finite(b) THEN NaN
  ELSE IF ~Finite(b) THEN 0
  ELSE IF b = 0 THEN (IF a = 0 THEN NaN ELSE IF (a > 0) THEN Inf ELSE NegInf)
  ELSE IF ~Finite(a) THEN (IF (a > 0) = (b > 0) THEN Inf ELSE NegInf)
  ELSE IF b > 0 THEN a \div b ELSE (-a) \div (-b)

\* 0.5 * x.  Exact in binary floating point; exact here whenever x is even.
Half(x) == x \div 2

RECURSIVE SqrtSearch(_, _, _)
SqrtSearch(n, lo, hi) ==
  IF lo = hi THEN lo
  ELSE LET mid == (lo + hi + 1) \div 2
       IN  IF mid * mid <= n THEN SqrtSearch(n, mid, hi) ELSE SqrtSearch(n, lo, mid - 1)

\* np.linalg.norm of a 2-vector: the square root, rounded down.
Norm(v) == SqrtSearch(v[1] * v[1] + v[2] * v[2], 0, 46340)

\* np.eye(n)[i, j]
Eye(i, j) == IF i = j THEN 1 ELSE 0

\* 1 / x in fixed point; 1/0 is inf.
Recip(x) == IF x = 0 THEN Inf ELSE ONE \div x

\* Mutant: 1 / x ** 2.
RecipSquare(x) == IF x = 0 THEN Inf ELSE IF x > ONE THEN 0 ELSE ONE \div (x * x)

\* 1 / x ** 3 in fixed point.  Beyond x = ONE the cube exceeds ONE and the
\* quotient is 0; the cube itself is then not computed.
RecipCube(x) == IF x = 0 THEN Inf ELSE IF x > ONE THEN 0 ELSE ONE \div (x * x * x)

\* result[result == np.inf] = 0
ZeroInf(x) == IF x = Inf THEN 0 ELSE x

RECURSIVE SumTo(_, _)
\* sum of f[1] .. f[n]
SumTo(f, n) == IF n = 0 THEN 0 ELSE XAdd(SumTo(f, n - 1), f[n])

\* ---------------------------------------------------------------- vectors
VAdd(u, v) == <<XAdd(u[1], v[1]), XAdd(u[2], v[2])>>
VSub(u, v) == <<XSub(u[1], v[1]), XSub(u[2], v[2])>>
VScale(c, v) == <<XMul(c, v[1]), XMul(c, v[2])>>
VHalf(v) == <<Half(v[1]), Half(v[2])>>
\* np.cross of two 2-vectors: the z component
Cross(u, v) == XSub(XMul(u[1], v[2]), XMul(u[2], v[1]))

\* (n, 2) arrays, row by row
AAdd(a, b) == [i \in DOMAIN a |-> VAdd(a[i], b[i])]
AScale(c, a) == [i \in DOMAIN a |-> VScale(c, a[i])]
AHalf(a) == [i \in DOMAIN a |-> VHalf(a[i])]

\* ------------------------------------------------------------------ state
Inst == {1, 2}

VARIABLES
  particles,     \* the list of Particle objects handed to every State
  state,         \* state[k]: the fields of State instance k
  status,        \* status[k]: "new", "ok", or the exception __init__ raised
  steps,         \* steps[k]: update() calls so far; names k's current arrays
  given,         \* given[k]: what State.__init__ read (history)
  refreshedAt,   \* refreshedAt[k]: steps[k] at the last update_trackables, -1 if none
  writes         \* in-place writes a holder of the Particle objects has made

vars == <<particles, state, status, steps, given, refreshedAt, writes>>

\* A Particle; base names the array its vectors are views of: <<k, s>> for
\* the arrays State k held after s updates, <<0, 0>> for arrays of its own.
Particle(mass, position_x, position_y, velocity_x, velocity_y) ==
  [mass |-> mass,
   position |-> <<position_x, position_y>>,
   velocity |-> <<velocity_x, velocity_y>>,
   acceleration |-> <<0, 0>>,
   base |-> <<0, 0>>]

ParticleValues ==
  { Particle(2, 0, 0, 0, 0),
    Particle(1, 4, 0, 11, 0),
    Particle(1, 0, 3, 1, 2),
    Particle(0, 3, 4, 0, -1),
    Particle(-1, 0, 4, 0, 0) }

GValues == {1, 2}
\* Time steps are even, so that 0.5 * x in update is exact here as it is in
\* binary floating point.
DtValues == {-2, 0, 2, 4}
WriteValues == {0, 7}

NoState ==
  [NewtonG |-> 0, dt |-> 0, number_of_particles |-> 0, masses |-> <<>>,
   positions |-> <<>>, velocities |-> <<>>, accelerations |-> <<>>,
   momentum |-> <<0, 0>>, kinetic_energy |-> 0, potential_energy |-> 0,
   energy |-> 0, center_of_mass |-> <<0, 0>>, angular_momentum |-> 0]

\* --------------------------------------------------------- State's methods
\* Mutant: the factor of entry [i, j, :] is masses[i].
BroadcastMassRow(masses, i, j) == masses[i]

\* masses[:, np.newaxis] against the (n, n, 2) array: the factor of entry
\* [i, j, :] is masses[j].
BroadcastMass(masses, i, j) == masses[j]

calculate_acceleration(self) ==
  LET n == self.number_of_particles
      I == 1 .. n
      dist == [i \in I |-> [j \in I |-> VSub(self.positions[j], self.positions[i])]]
      r1 == [i \in I |-> [j \in I |-> Norm(dist[i][j]) + Eye(i, j)]]
      r2 == [i \in I |-> [j \in I |-> RecipCube(r1[i][j])]]
      r3 == [i \in I |-> [j \in I |-> XSub(r2[i][j], ONE * Eye(i, j))]]
      r4 == [i \in I |-> [j \in I |-> ZeroInf(r3[i][j])]]
      r5 == [i \in I |-> [j \in I |-> VScale(r4[i][j], dist[i][j])]]
      r6 == [i \in I |-> [j \in I |->
               VScale(XMul(self.NewtonG, BroadcastMass(self.masses, i, j)), r5[i][j])]]
  IN  [i \in I |-> <<SumTo([j \in I |-> r6[i][j][1]], n),
                     SumTo([j \in I |-> r6[i][j][2]], n)>>]

calculate_potential(self) ==
  LET n == self.number_of_particles
      I == 1 .. n
      r1 == [i \in I |-> [j \in I |->
               Norm(VSub(self.positions[j], self.positions[i])) + Eye(i, j)]]
      r2 == [i \in I |-> [j \in I |-> Recip(r1[i][j])]]
      r3 == [i \in I |-> [j \in I |-> XSub(r2[i][j], ONE * Eye(i, j))]]
      r4 == [i \in I |-> [j \in I |-> ZeroInf(r3[i][j])]]
      r5 == [i \in I |-> [j \in I |->
               XMul(XMul(XMul(-self.NewtonG, self.masses[i]), self.masses[j]), r4[i][j])]]
  IN  SumTo([i \in I |-> SumTo(r5[i], n)], n)

calculate_kinetic(self) ==
  LET n == self.number_of_particles
  IN  SumTo([i \in 1 .. n |->
               Half(Norm(self.velocities[i]) * Norm(self.velocities[i])) * self.masses[i]], n)

calculate_energy(self) == XAdd(self.kinetic_energy, self.potential_energy)

calculate_momentum(self) ==
  LET n == self.number_of_particles
  IN  <<SumTo([i \in 1 .. n |-> self.masses[i] * self.velocities[i][1]], n),
        SumTo([i \in 1 .. n |-> self.masses[i] * self.velocities[i][2]], n)>>

calculate_center_of_mass(self) ==
  LET n == self.number_of_particles
      total == SumTo(self.masses, n)
  IN  <<XDiv(SumTo([i \in 1 .. n |-> self.masses[i] * self.positions[i][1]], n), total),
        XDiv(SumTo([i \in 1 .. n |-> self.masses[i] * self.positions[i][2]], n), total)>>

calculate_angular_momentum(self) ==
  LET n == self.number_of_particles
      total == SumTo(self.masses, n)
      drift == <<XDiv(self.momentum[1], total), XDiv(self.momentum[2], total)>>
      result == [i \in 1 .. n |->
                   Cross(VSub(self.positions[i], self.center_of_mass),
                         VScale(self.masses[i], VSub(self.velocities[i], drift)))]
  IN  XNeg(SumTo(result, n))

\* Mutant: the accelerations are recomputed before the positions move.
update_stale(self) ==
  LET x0 == self.positions
      v0 == self.velocities
      a0 == self.accelerations
      dt == self.dt
      a1 == calculate_acceleration(self)
  IN  [self EXCEPT !.positions =
                     AAdd(AAdd(x0, AScale(dt, v0)), AHalf(AScale(dt, AScale(dt, a0)))),
                   !.accelerations = a1,
                   !.velocities = AAdd(v0, AHalf(AScale(dt, AAdd(a0, a1))))]

\* Mutant: the velocity is advanced with the old acceleration alone.
update_euler(self) ==
  LET x0 == self.positions
      v0 == self.velocities
      a0 == self.accelerations
      dt == self.dt
      moved == [self EXCEPT !.positions =
                  AAdd(AAdd(x0, AScale(dt, v0)), AHalf(AScale(dt, AScale(dt, a0))))]
      a1 == calculate_acceleration(moved)
  IN  [moved EXCEPT !.accelerations = a1,
                    !.velocities = AAdd(v0, AScale(dt, a0))]

\* State.update: what self becomes
update(self) ==
  LET x0 == self.positions
      v0 == self.velocities
      a0 == self.accelerations
      dt == self.dt
      moved == [self EXCEPT !.positions =
                  AAdd(AAdd(x0, AScale(dt, v0)), AHalf(AScale(dt, AScale(dt, a0))))]
      a1 == calculate_acceleration(moved)
  IN  [moved EXCEPT !.accelerations = a1,
                    !.velocities = AAdd(v0, AHalf(AScale(dt, AAdd(a0, a1))))]

\* State.update_trackables: what self becomes (the Particle objects apart)
\* Mutant (refresh_recentred): the positions are moved to the frame of the
\* centre of mass, as draw_particle draws them.
refresh_recentred(self) ==
  LET s1 == [self EXCEPT !.momentum = calculate_momentum(self)]
      s2 == [s1 EXCEPT !.kinetic_energy = calculate_kinetic(s1)]
      s3 == [s2 EXCEPT !.potential_energy = calculate_potential(s2)]
      s4 == [s3 EXCEPT !.energy = calculate_energy(s3)]
      s5 == [s4 EXCEPT !.center_of_mass = calculate_center_of_mass(s4)]
  IN  [s5 EXCEPT !.positions =
         [i \in DOMAIN s5.positions |-> VSub(s5.positions[i], s5.center_of_mass)]]

refresh(self) ==
  LET s1 == [self EXCEPT !.momentum = calculate_momentum(self)]
      s2 == [s1 EXCEPT !.kinetic_energy = calculate_kinetic(s1)]
      s3 == [s2 EXCEPT !.potential_energy = calculate_potential(s2)]
      s4 == [s3 EXCEPT !.energy = calculate_energy(s3)]
  IN  [s4 EXCEPT !.center_of_mass = calculate_center_of_mass(s4)]

\* State.__init__ from line 42 on: the derived fields
derive(self) ==
  LET s0 == [self EXCEPT !.accelerations = calculate_acceleration(self)]
      s1 == [s0 EXCEPT !.momentum = calculate_momentum(s0)]
      s2 == [s1 EXCEPT !.kinetic_energy = calculate_kinetic(s1)]
      s3 == [s2 EXCEPT !.potential_energy = calculate_potential(s2)]
      s4 == [s3 EXCEPT !.energy = calculate_energy(s3)]
      s5 == [s4 EXCEPT !.center_of_mass = calculate_center_of_mass(s4)]
  IN  [s5 EXCEPT !.angular_momentum = calculate_angular_momentum(s5)]

\* ---------------------------------------------------------------- actions
Init ==
  /\ particles \in UNION {[1 .. n -> ParticleValues] : n \in 0 .. MaxParticles}
  /\ state = [k \in Inst |-> NoState]
  /\ status = [k \in Inst |-> "new"]
  /\ steps = [k \in Inst |-> 0]
  /\ given = [k \in Inst |-> NoState]
  /\ refreshedAt = [k \in Inst |-> -1]
  /\ writes = 0

\* State(NewtonG, particles, dt)
Construct(k, G, dt) ==
  /\ status[k] = "new"
  /\ LET n == Len(particles)
         read == [NoState EXCEPT
                    !.NewtonG = G, !.dt = dt, !.number_of_particles = n,
                    !.masses = [i \in 1 .. n |-> particles[i].mass],
                    !.positions = [i \in 1 .. n |-> particles[i].position],
                    !.velocities = [i \in 1 .. n |-> particles[i].velocity]]
     IN  IF n = 0
         THEN \* np.vstack([]) raises
              /\ status' = [status EXCEPT ![k] = "ValueError"]
              /\ UNCHANGED <<state, given>>
         ELSE /\ status' = [status EXCEPT ![k] = "ok"]
              /\ state' = [state EXCEPT ![k] = derive(read)]
              /\ given' = [given EXCEPT ![k] = read]
  /\ UNCHANGED <<particles, steps, refreshedAt, writes>>

\* Mutant: the instances share their arrays, so an update moves them all.
UpdateShared(k) ==
  /\ status[k] = "ok"
  /\ steps[k] < MaxSteps
  /\ state' = [j \in Inst |-> IF status[j] = "ok" THEN update(state[j]) ELSE state[j]]
  /\ steps' = [steps EXCEPT ![k] = steps[k] + 1]
  /\ UNCHANGED <<particles, status, given, refreshedAt, writes>>

\* state k's update()
Update(k) ==
  /\ status[k] = "ok"
  /\ steps[k] < MaxSteps
  /\ state' = [state EXCEPT ![k] = update(state[k])]
  /\ steps' = [steps EXCEPT ![k] = steps[k] + 1]
  /\ UNCHANGED <<particles, status, given, refreshedAt, writes>>

\* state k's update_trackables()
UpdateTrackables(k) ==
  /\ status[k] = "ok"
  /\ particles' = [i \in DOMAIN particles |->
                     [particles[i] EXCEPT
                        !.position = state[k].positions[i],
                        !.velocity = state[k].velocities[i],
                        !.acceleration = state[k].accelerations[i],
                        !.base = <<k, steps[k]>>]]
  /\ state' = [state EXCEPT ![k] = refresh(state[k])]
  /\ refreshedAt' = [refreshedAt EXCEPT ![k] = steps[k]]
  /\ UNCHANGED <<status, steps, given, writes>>

Solo == {1}

Next ==
  \E k \in Solo :
    \/ \E G \in GValues, dt \in DtValues : Construct(k, G, dt)
    \/ Update(k)
    \/ UpdateTrackables(k)

Spec == Init /\ [][Next]_vars

\* test.py, lines 57-58: two State instances built from the same list of
\* Particles, s = State(1, gas, 0.1) and the Simulation's State with a larger
\* NewtonG and a smaller dt; then any calls on either.
NextTwo ==
  \/ Construct(1, 1, 4)
  \/ Construct(2, 2, 2)
  \/ \E k \in Inst :
       \/ Update(k)
       \/ UpdateTrackables(k)

\* test.py's lists hold particles of positive mass at different places.
InitTwo ==
  /\ Init
  /\ \A i \in DOMAIN particles : particles[i].mass > 0
  /\ \A i, j \in DOMAIN particles : i # j => particles[i].position # particles[j].position

SpecTwo == InitTwo /\ [][NextTwo]_vars

\* The State array behind each of a Particle's vectors.
ArrayOf(f) ==
  CASE f = "position" -> "positions"
    [] f = "velocity" -> "velocities"
    [] f = "acceleration" -> "accelerations"

\* A holder of the Particle objects assigns to one component of one of their
\* vectors in place (particle.position[0] = val).  A view writes through to
\* the array it is a view of.
CallerWrite(i, f, c, val) ==
  /\ writes < MaxWrites
  /\ i \in DOMAIN particles
  /\ particles' = [particles EXCEPT ![i][f][c] = val]
  /\ state' = [k \in Inst |->
                 IF status[k] = "ok" /\ particles[i].base = <<k, steps[k]>>
                 THEN [state[k] EXCEPT ![ArrayOf(f)][i][c] = val]
                 ELSE state[k]]
  /\ writes' = writes + 1
  /\ UNCHANGED <<status, steps, given, refreshedAt>>

NextCaller ==
  \/ \E k \in Solo :
       \/ \E G \in GValues, dt \in DtValues : Construct(k, G, dt)
       \/ Update(k)
       \/ UpdateTrackables(k)
  \/ \E i \in 1 .. MaxParticles, f \in {"position", "velocity", "acceleration"},
        c \in {1, 2}, val \in WriteValues : CallerWrite(i, f, c, val)

SpecCaller == Init /\ [][NextCaller]_vars

\* -------------------------------------------------------------- properties
Constructed(k) == status[k] = "ok"

Rows(self) == 1 .. self.number_of_particles

DistinctPositions(self) ==
  \A i, j \in Rows(self) : i # j => self.positions[i] # self.positions[j]

\* State k after t updates and nothing else, from what its constructor read.
RECURSIVE Alone(_, _)
Alone(k, t) == IF t = 0 THEN derive(given[k]) ELSE update(Alone(k, t - 1))

\* The integration state: what update reads and writes.
Physics(self) ==
  <<self.NewtonG, self.dt, self.masses, self.positions, self.velocities,
    self.accelerations>>

\* C1: after construction and after every completed update, for any number
\* of updates, the stored accelerations are calculate_acceleration() of the
\* stored positions.
AccelerationsMatchPositions ==
  \A k \in Inst :
    Constructed(k) => state[k].accelerations = calculate_acceleration(state[k])

\* C1 witness: an update has completed, and it changed the accelerations
\* from a nonzero value to another nonzero value.
AccelerationsRecomputed ==
  \E k \in Inst :
    /\ Constructed(k) /\ steps[k] = 1
    /\ \E i \in Rows(state[k]) :
         /\ Alone(k, 0).accelerations[i] # <<0, 0>>
         /\ state[k].accelerations[i] # <<0, 0>>
         /\ state[k].accelerations[i] # Alone(k, 0).accelerations[i]

\* C3 reference: the direct loop over j # i, in ascending j.
PairTerm(self, i, j) ==
  IF i = j THEN <<0, 0>>
  ELSE LET d == VSub(self.positions[j], self.positions[i])
           r == Norm(d)
           cube == IF r = 0 THEN Inf ELSE IF r > ONE THEN 0 ELSE ONE \div (r * r * r)
       IN  VScale(XMul(XMul(self.NewtonG, self.masses[j]), cube), d)

PairwiseAcceleration(self) ==
  [i \in Rows(self) |->
     <<SumTo([j \in Rows(self) |-> PairTerm(self, i, j)[1]], self.number_of_particles),
       SumTo([j \in Rows(self) |-> PairTerm(self, i, j)[2]], self.number_of_particles)>>]

\* The same loop with a pair at the same position left out as well (the
\* program zeroes its infinite weight).
PairwiseAccelerationOrZero(self) ==
  LET term(i, j) == IF self.positions[i] = self.positions[j]
                    THEN <<0, 0>> ELSE PairTerm(self, i, j)
  IN  [i \in Rows(self) |->
         <<SumTo([j \in Rows(self) |-> term(i, j)[1]], self.number_of_particles),
           SumTo([j \in Rows(self) |-> term(i, j)[2]], self.number_of_particles)>>]

\* C3: for n >= 1 particles at distinct positions calculate_acceleration()
\* gives particle i the sum over j # i of G * mass_j * (p_j - p_i) / r^3,
\* the self term contributing nothing, and no component is inf or nan.
AccelerationIsPairwiseSum ==
  \A k \in Inst :
    (Constructed(k) /\ DistinctPositions(state[k])) =>
      LET a == calculate_acceleration(state[k])
      IN  /\ a = PairwiseAcceleration(state[k])
          /\ \A i \in Rows(state[k]) : Finite(a[i][1]) /\ Finite(a[i][2])

\* C3 witness: two particles of different mass at distinct positions that
\* attract each other.
UnequalMassesAttract ==
  \E k \in Inst :
    /\ Constructed(k) /\ DistinctPositions(state[k])
    /\ state[k].number_of_particles >= 2
    /\ state[k].masses[1] # state[k].masses[2]
    /\ state[k].masses[1] > 0 /\ state[k].masses[2] > 0
    /\ calculate_acceleration(state[k])[1] # <<0, 0>>
    /\ calculate_acceleration(state[k])[2] # <<0, 0>>

\* C4 reference: the double loop over unordered pairs i < j, each once.
PairPotential(self, i, j) ==
  IF i < j
  THEN XMul(XMul(XMul(-self.NewtonG, self.masses[i]), self.masses[j]),
            Recip(Norm(VSub(self.positions[j], self.positions[i]))))
  ELSE 0

ReferencePotential(self) ==
  SumTo([i \in Rows(self) |->
           SumTo([j \in Rows(self) |-> PairPotential(self, i, j)],
                 self.number_of_particles)],
        self.number_of_particles)

ValidInput(self) ==
  /\ self.number_of_particles >= 1
  /\ \A i \in Rows(self) : self.masses[i] > 0
  /\ self.dt > 0

\* C4: calculate_potential() is -G * sum over i < j of m_i * m_j / r_ij,
\* each unordered pair counted once (positive masses, distinct positions).
PotentialCountsEachPairOnce ==
  \A k \in Inst :
    (Constructed(k) /\ ValidInput(state[k]) /\ DistinctPositions(state[k])) =>
      calculate_potential(state[k]) = ReferencePotential(state[k])

\* C5: construction with zero particles, a mass <= 0 or dt <= 0 fails and
\* yields no state: it succeeds only for n >= 1, all masses > 0 and dt > 0.
\* (Stated for any exception; the program has no InvalidInputError.)
ConstructionValidatesInput ==
  \A k \in Inst : Constructed(k) => ValidInput(state[k])

\* C6: after update_trackables, every cached diagnostic is what its
\* calculator returns on the current positions and velocities, and every
\* Particle's vectors are the rows of the state's arrays.
DiagnosticsCurrentAfterRefresh ==
  \A k \in Inst :
    (Constructed(k) /\ ValidInput(state[k]) /\ refreshedAt[k] = steps[k]) =>
      /\ state[k].momentum = calculate_momentum(state[k])
      /\ state[k].kinetic_energy = calculate_kinetic(state[k])
      /\ state[k].potential_energy = calculate_potential(state[k])
      /\ state[k].energy = XAdd(calculate_kinetic(state[k]), calculate_potential(state[k]))
      /\ state[k].center_of_mass = calculate_center_of_mass(state[k])
      /\ state[k].angular_momentum = calculate_angular_momentum(state[k])
      /\ \A i \in Rows(state[k]) :
           particles[i].base = <<k, steps[k]>> =>
             /\ particles[i].position = state[k].positions[i]
             /\ particles[i].velocity = state[k].velocities[i]
             /\ particles[i].acceleration = state[k].accelerations[i]

\* C7: update_trackables leaves the integration alone: whatever calls of it
\* are interleaved, after N updates the state holds what N updates alone
\* give (positions, velocities, accelerations, masses, G and dt).
RefreshLeavesTrajectory ==
  \A k \in Inst :
    Constructed(k) => Physics(state[k]) = Physics(Alone(k, steps[k]))

\* C7 witness: update_trackables ran between two updates.
RefreshedBetweenUpdates ==
  \E k \in Inst :
    /\ Constructed(k) /\ steps[k] = 2 /\ refreshedAt[k] = 1
    /\ state[k].positions # Alone(k, 1).positions
    /\ state[k].center_of_mass # <<0, 0>>

\* C8: total momentum is the same after every update, and the accelerations
\* satisfy sum_i mass_i * acceleration_i = 0 at every position reached.
MomentumConserved ==
  \A k \in Inst :
    Constructed(k) =>
      /\ calculate_momentum(state[k]) = calculate_momentum(given[k])
      /\ calculate_momentum([state[k] EXCEPT
                               !.velocities = calculate_acceleration(state[k])])
           = <<0, 0>>

\* C8 witness: an update under nonzero forces, before and after, has changed
\* the velocities of two particles of different positive mass.
VelocitiesChangedByForces ==
  \E k \in Inst :
    /\ Constructed(k) /\ steps[k] = 1 /\ ValidInput(state[k])
    /\ state[k].number_of_particles >= 2
    /\ state[k].masses[1] # state[k].masses[2]
    /\ state[k].velocities[1] # given[k].velocities[1]
    /\ state[k].velocities[2] # given[k].velocities[2]
    /\ state[k].accelerations[1] # <<0, 0>>
    /\ calculate_momentum(state[k]) # <<0, 0>>

\* C2: one update from (x0, v0, a0) gives x1 = x0 + v0*dt + 0.5*a0*dt^2,
\* a1 = calculate_acceleration() at x1, v1 = v0 + 0.5*(a0 + a1)*dt, with
\* the same dt, G and masses as before.
UpdateIsVelocityVerlet ==
  [][\A k \in Inst :
       steps'[k] = steps[k] + 1 =>
         LET old == state[k]
             new == state'[k]
             dt == old.dt
         IN  /\ new.dt = dt /\ new.NewtonG = old.NewtonG /\ new.masses = old.masses
             /\ new.accelerations = PairwiseAccelerationOrZero(new)
             /\ \A i \in Rows(old) : \A c \in {1, 2} :
                  /\ 2 * new.positions[i][c] =
                       2 * old.positions[i][c] + 2 * old.velocities[i][c] * dt
                         + old.accelerations[i][c] * dt * dt
                  /\ 2 * new.velocities[i][c] =
                       2 * old.velocities[i][c]
                         + (old.accelerations[i][c] + new.accelerations[i][c]) * dt
    ]_vars

\* C2 witness: an update from nonzero velocity and acceleration to a
\* different nonzero acceleration.
UpdatedUnderChangingForce ==
  \E k \in Inst :
    /\ Constructed(k) /\ steps[k] = 1 /\ state[k].dt # 0
    /\ \E i \in Rows(state[k]) :
         /\ given[k].velocities[i] # <<0, 0>>
         /\ Alone(k, 0).accelerations[i] # <<0, 0>>
         /\ state[k].accelerations[i] # <<0, 0>>
         /\ state[k].accelerations[i] # Alone(k, 0).accelerations[i]
         /\ state[k].velocities[i] # given[k].velocities[i]

\* No Particle's vectors are views of the arrays a State now holds.
NoSharedStorage ==
  \A k \in Inst : \A i \in DOMAIN particles :
    (Constructed(k) /\ ValidInput(state[k])) => particles[i].base # <<k, steps[k]>>

\* C9: after any construction, update and update_trackables calls, no vector
\* exposed through a Particle shares storage with the state's arrays, and an
\* in-place write to one never changes what a State holds.
ExposedVectorsAreCopies ==
  /\ []NoSharedStorage
  /\ [][writes' # writes =>
          \A k \in Inst :
            (Constructed(k) /\ ValidInput(state[k])) =>
              Physics(state'[k]) = Physics(state[k])]_vars

\* C10: of two State instances built from the same Particles, an operation
\* on one leaves the positions, velocities, accelerations and masses of the
\* other as they were, and each holds what it would hold run alone.
InstancesIndependent ==
  /\ [](\A k \in Inst :
          Constructed(k) => Physics(state[k]) = Physics(Alone(k, steps[k])))
  /\ [][\A k \in Inst :
          (status'[k] = status[k] /\ steps'[k] = steps[k]) =>
            Physics(state'[k]) = Physics(state[k])]_vars

\* C10 witness: both instances have been updated and refreshed, and hold
\* different trajectories.
BothInstancesAdvanced ==
  /\ Constructed(1) /\ Constructed(2)
  /\ steps[1] = 2 /\ steps[2] = 1
  /\ refreshedAt[1] = 1 /\ refreshedAt[2] = 1
  /\ state[1].number_of_particles >= 2
  /\ state[1].positions # state[2].positions
  /\ state[1].velocities # given[1].velocities
  /\ state[2].velocities # given[2].velocities

====
